---- MODULE Spec2Model ----
(***************************************************************************)
(* Model of quail.py: the naming helpers that run over an MMD model held   *)
(* in a Blender scene (pose bones, rigid bodies, joints, morphs).          *)
(*                                                                         *)
(* A Python str is the sequence of its Unicode code points (46 is ".",     *)
(* 76 "L", 82 "R", 95 "_", 43 "+", 65 "A", 49 "1", 24038 and 21491 the     *)
(* left and right prefixes); a bytes object is a sequence of byte values.  *)
(* What a call prints is kept as records naming the message by its line.   *)
(***************************************************************************)
EXTENDS Integers, Sequences, FiniteSets, TLC

VARIABLES
    bones,          \* bpy.data.objects[selectArmature()].pose.bones
    objects,        \* bpy.data.objects (mmd_rigid / mmd_joint of each)
    translation,    \* mmd_tools.translations.translateFromJp, as a table
    frame_items,    \* items of the display frame setMorphPanel fills
    vertex_morphs,  \* mmd_root.vertex_morphs
    shape_keys,     \* bpy.data.shape_keys (key_blocks names of each)
    csv_rows,       \* rows csv.reader yields for csv_file
    console,        \* what the last call printed
    called          \* the last call and its arguments

vars == <<bones, objects, translation, frame_items, vertex_morphs,
          shape_keys, csv_rows, console, called>>

-----------------------------------------------------------------------------
(* Bounds *)

MaxNameLen == 4
MaxBones == 2
MaxLookupLen == 2
MaxObjects == 3
MaxPhysicsNameLen == 2
MaxKeys == 2
MaxKeyBlocks == 2
MaxMorphs == 2
MaxRows == 2
MaxMeshes == 2
MaxModifiers == 2
MaxTargets == 1

-----------------------------------------------------------------------------
(* Python str and bytes *)

SeqsUpTo(S, lo, hi) == UNION {[1..n -> S] : n \in lo..hi}

\* sub in s
Contains(s, sub) ==
    \E i \in 1..(Len(s) - Len(sub) + 1) : SubSeq(s, i, i + Len(sub) - 1) = sub

StartsWith(s, sub) ==
    Len(s) >= Len(sub) /\ SubSeq(s, 1, Len(sub)) = sub

EndsWith(s, sub) ==
    Len(s) >= Len(sub) /\ SubSeq(s, Len(s) - Len(sub) + 1, Len(s)) = sub

\* s.replace(old, new), old non-empty: every non-overlapping occurrence,
\* found left to right; replaced text is not scanned again
RECURSIVE replace(_, _, _)
replace(s, old, new) ==
    IF Len(s) < Len(old) THEN s
    ELSE IF StartsWith(s, old)
         THEN new \o replace(SubSeq(s, Len(old) + 1, Len(s)), old, new)
         ELSE <<Head(s)>> \o replace(Tail(s), old, new)

\* the UTF-8 bytes of one code point of the Basic Multilingual Plane
Utf8(c) ==
    IF c < 128 THEN <<c>>
    ELSE IF c < 2048 THEN <<192 + (c \div 64), 128 + (c % 64)>>
    ELSE <<224 + (c \div 4096), 128 + ((c \div 64) % 64), 128 + (c % 64)>>

\* s.encode('utf-8')
RECURSIVE encode(_)
encode(s) == IF s = <<>> THEN <<>> ELSE Utf8(Head(s)) \o encode(Tail(s))

\* bytes.isalnum(): non-empty, every byte an ASCII letter or digit
isalnum(b) ==
    /\ Len(b) > 0
    /\ \A i \in 1..Len(b) :
          b[i] \in (48..57) \cup (65..90) \cup (97..122)

RECURSIVE Concat(_)
Concat(ss) == IF ss = <<>> THEN <<>> ELSE Head(ss) \o Concat(Tail(ss))

SeqMap(Op(_), s) == [i \in 1..Len(s) |-> Op(s[i])]

Range(s) == {s[i] : i \in 1..Len(s)}

Message(msg, name, arg) == [msg |-> msg, name |-> name, arg |-> arg]

Call(op, overwrite) == [op |-> op, overwrite |-> overwrite]

-----------------------------------------------------------------------------
(* setJapaneseBoneNames *)

L == <<46, 76>>    \* ".L"
R == <<46, 82>>    \* ".R"

excludedRightOnly ==
    { <<19978, 21322, 36523, 50, 35036, 21161, 46, 82>>,
      <<33136, 12461, 12515, 12531, 12475, 12523, 46, 82>>,
      <<19979, 21322, 36523, 35036, 21161, 46, 82>> }

\* line 34: the six bone names ending in .L / .R that are left alone
excluded ==
    { <<19978, 21322, 36523, 50, 35036, 21161, 46, 76>>,
      <<19978, 21322, 36523, 50, 35036, 21161, 46, 82>>,
      <<33136, 12461, 12515, 12531, 12475, 12523, 46, 76>>,
      <<33136, 12461, 12515, 12531, 12475, 12523, 46, 82>>,
      <<19979, 21322, 36523, 35036, 21161, 46, 76>>,
      <<19979, 21322, 36523, 35036, 21161, 46, 82>> }

\* the name a trailing ".L" / ".R" alone decides
JapaneseNameEndsWith(name) ==
    IF EndsWith(name, L) THEN <<24038>> \o SubSeq(name, 1, Len(name) - 2)
    ELSE IF EndsWith(name, R) THEN <<21491>> \o SubSeq(name, 1, Len(name) - 2)
    ELSE name

\* lines 44-49: the name_j assigned for a bone name
JapaneseName(name) ==
    IF Contains(name, L) THEN <<24038>> \o replace(name, L, <<>>)
    ELSE IF Contains(name, R) THEN <<21491>> \o replace(name, R, <<>>)
    ELSE name

\* one pass of the loop body: the bone afterwards
setJapaneseBoneName(bone) ==
    IF bone.is_mmd_shadow_bone THEN bone
    ELSE IF bone.name \in excluded THEN bone
    ELSE [bone EXCEPT !.name_j = JapaneseName(bone.name)]

\* one pass of the loop body: what it prints
setJapaneseBoneNamePrints(bone) ==
    IF bone.is_mmd_shadow_bone THEN <<>>
    ELSE IF bone.name \in excluded
         THEN <<Message("line 41", bone.name, bone.name_j)>>
         ELSE <<Message("line 51", bone.name, <<>>)>>

setJapaneseBoneNames ==
    /\ bones' = SeqMap(setJapaneseBoneName, bones)
    /\ console' = Concat(SeqMap(setJapaneseBoneNamePrints, bones))
    /\ called' = Call("setJapaneseBoneNames", FALSE)
    /\ UNCHANGED <<objects, translation, frame_items, vertex_morphs,
                   shape_keys, csv_rows>>

-----------------------------------------------------------------------------
(* checkInvalidBoneName *)

\* lines 101-104: the English-name messages for a stored name_e
EnglishNameCheck(name_e) ==
    IF name_e = <<>> THEN <<"line 102">>
    ELSE IF ~isalnum(encode(replace(replace(name_e, <<95>>, <<>>),
                                    <<43>>, <<>>)))
         THEN <<"line 104">>
         ELSE <<>>

JapaneseNameCheckLeftOnly(name, name_j) ==
    IF name_j = <<>> THEN <<"line 107">>
    ELSE IF Contains(name, L)
         THEN IF name_j # <<24038>> \o replace(name, L, <<>>)
              THEN <<"line 110">> ELSE <<>>
         ELSE IF name_j # name
              THEN <<"line 110">> ELSE <<>>

\* lines 106-116: the Japanese-name messages for a bone name and name_j
JapaneseNameCheck(name, name_j) ==
    IF name_j = <<>> THEN <<"line 107">>
    ELSE IF Contains(name, L)
         THEN IF name_j # <<24038>> \o replace(name, L, <<>>)
              THEN <<"line 110">> ELSE <<>>
         ELSE IF Contains(name, R)
              THEN IF name_j # <<21491>> \o replace(name, R, <<>>)
                   THEN <<"line 110">> ELSE <<>>
              ELSE IF name_j # name
                   THEN <<"line 110">> ELSE <<>>

\* one pass of the loop body: what it prints
checkInvalidBoneNamePrints(bone) ==
    IF bone.is_mmd_shadow_bone THEN <<>>
    ELSE LET e == EnglishNameCheck(bone.name_e)
             j == JapaneseNameCheck(bone.name, bone.name_j)
         IN  [i \in 1..Len(e) |-> Message(e[i], bone.name, bone.name_e)]
             \o [i \in 1..Len(j) |-> Message(j[i], bone.name, bone.name_j)]

checkInvalidBoneName ==
    /\ console' = Concat(SeqMap(checkInvalidBoneNamePrints, bones))
    /\ called' = Call("checkInvalidBoneName", FALSE)
    /\ UNCHANGED <<bones, objects, translation, frame_items, vertex_morphs,
                   shape_keys, csv_rows>>

-----------------------------------------------------------------------------
(* setEnglishBoneNames, setEnglishRigidNames, setEnglishJointNames *)

\* mmd_tools.translations.translateFromJp(name_j)
translateFromJp(name_j) == translation[name_j]

setEnglishBoneNameUnchecked(bone, overwrite) ==
    IF bone.is_mmd_shadow_bone THEN bone
    ELSE LET EnglishName == translateFromJp(bone.name_j)
         IN  IF bone.name_e # <<>> /\ ~overwrite
             THEN bone
             ELSE [bone EXCEPT !.name_e = EnglishName]

\* lines 66-75, one pass of the loop body: the bone afterwards
setEnglishBoneName(bone, overwrite) ==
    IF bone.is_mmd_shadow_bone THEN bone
    ELSE LET EnglishName == translateFromJp(bone.name_j)
         IN  IF ~isalnum(encode(replace(EnglishName, <<95>>, <<>>)))
             THEN bone
             ELSE IF bone.name_e # <<>> /\ ~overwrite
                  THEN bone
                  ELSE [bone EXCEPT !.name_e = EnglishName]

\* lines 66-75, one pass of the loop body: what it prints
setEnglishBoneNamePrints(bone, overwrite) ==
    IF bone.is_mmd_shadow_bone THEN <<>>
    ELSE LET EnglishName == translateFromJp(bone.name_j)
         IN  IF ~isalnum(encode(replace(EnglishName, <<95>>, <<>>)))
             THEN <<Message("line 69", bone.name, <<>>)>>
             ELSE IF bone.name_e # <<>> /\ ~overwrite
                  THEN <<Message("line 72", bone.name, <<>>)>>
                  ELSE <<Message("line 75", bone.name, EnglishName)>>

setEnglishBoneNames(overwrite) ==
    /\ bones' = [i \in 1..Len(bones) |->
                    setEnglishBoneName(bones[i], overwrite)]
    /\ console' = Concat([i \in 1..Len(bones) |->
                    setEnglishBoneNamePrints(bones[i], overwrite)])
    /\ called' = Call("setEnglishBoneNames", overwrite)
    /\ UNCHANGED <<objects, translation, frame_items, vertex_morphs,
                   shape_keys, csv_rows>>

\* lines 201-212, one pass of the loop body: the object afterwards
setEnglishRigidName(rigid, overwrite) ==
    IF rigid.mmd_rigid.name_j = <<>> THEN rigid
    ELSE LET EnglishName == translateFromJp(rigid.mmd_rigid.name_j)
         IN  IF isalnum(encode(replace(EnglishName, <<95>>, <<>>)))
             THEN IF ~overwrite /\ rigid.mmd_rigid.name_e # <<>>
                  THEN rigid
                  ELSE [rigid EXCEPT !.mmd_rigid.name_e = EnglishName]
             ELSE rigid

\* lines 201-212, one pass of the loop body: what it prints
setEnglishRigidNamePrints(rigid, overwrite) ==
    IF rigid.mmd_rigid.name_j = <<>> THEN <<>>
    ELSE LET EnglishName == translateFromJp(rigid.mmd_rigid.name_j)
         IN  IF isalnum(encode(replace(EnglishName, <<95>>, <<>>)))
             THEN IF ~overwrite /\ rigid.mmd_rigid.name_e # <<>>
                  THEN <<Message("line 206", rigid.mmd_rigid.name_j, <<>>)>>
                  ELSE <<Message("line 209", rigid.mmd_rigid.name_j,
                                 EnglishName)>>
             ELSE <<Message("line 211", rigid.mmd_rigid.name_j, <<>>)>>

setEnglishRigidNames(overwrite) ==
    /\ objects' = [i \in 1..Len(objects) |->
                    setEnglishRigidName(objects[i], overwrite)]
    /\ console' = Concat([i \in 1..Len(objects) |->
                    setEnglishRigidNamePrints(objects[i], overwrite)])
    /\ called' = Call("setEnglishRigidNames", overwrite)
    /\ UNCHANGED <<bones, translation, frame_items, vertex_morphs,
                   shape_keys, csv_rows>>

setEnglishJointNameAlways(joint, overwrite) ==
    IF joint.mmd_joint.name_j = <<>> THEN joint
    ELSE LET EnglishName == translateFromJp(joint.mmd_joint.name_j)
         IN  IF isalnum(encode(replace(EnglishName, <<95>>, <<>>)))
             THEN [joint EXCEPT !.mmd_joint.name_e = EnglishName]
             ELSE joint

\* lines 223-236, one pass of the loop body: the object afterwards
setEnglishJointName(joint, overwrite) ==
    IF joint.mmd_joint.name_j = <<>> THEN joint
    ELSE LET EnglishName == translateFromJp(joint.mmd_joint.name_j)
         IN  IF isalnum(encode(replace(EnglishName, <<95>>, <<>>)))
             THEN IF ~overwrite /\ joint.mmd_joint.name_e # <<>>
                  THEN joint
                  ELSE [joint EXCEPT !.mmd_joint.name_e = EnglishName]
             ELSE joint

\* lines 223-236, one pass of the loop body: what it prints
setEnglishJointNamePrints(joint, overwrite) ==
    IF joint.mmd_joint.name_j = <<>> THEN <<>>
    ELSE LET EnglishName == translateFromJp(joint.mmd_joint.name_j)
         IN  IF isalnum(encode(replace(EnglishName, <<95>>, <<>>)))
             THEN IF ~overwrite /\ joint.mmd_joint.name_e # <<>>
                  THEN <<Message("line 230", joint.mmd_joint.name_j, <<>>)>>
                  ELSE <<Message("line 233", joint.mmd_joint.name_j,
                                 EnglishName)>>
             ELSE <<Message("line 235", joint.mmd_joint.name_j, <<>>)>>

setEnglishJointNames(overwrite) ==
    /\ objects' = [i \in 1..Len(objects) |->
                    setEnglishJointName(objects[i], overwrite)]
    /\ console' = Concat([i \in 1..Len(objects) |->
                    setEnglishJointNamePrints(objects[i], overwrite)])
    /\ called' = Call("setEnglishJointNames", overwrite)
    /\ UNCHANGED <<bones, translation, frame_items, vertex_morphs,
                   shape_keys, csv_rows>>

-----------------------------------------------------------------------------
(* checkPhysicsDuplicationInMMD *)

\* lines 249-253: the names the loop collects, joints' then rigids'
joints ==
    LET named(obj) == obj.mmd_joint.name_j # <<>>
        objs == SelectSeq(objects, named)
    IN  [i \in 1..Len(objs) |-> objs[i].mmd_joint.name_j]

rigids ==
    LET named(obj) == obj.mmd_rigid.name_j # <<>>
        objs == SelectSeq(objects, named)
    IN  [i \in 1..Len(objs) |-> objs[i].mmd_rigid.name_j]

\* lines 257-260: how many elements of lst equal name1
counter(lst, name1) == Cardinality({j \in 1..Len(lst) : lst[j] = name1})

\* lines 256-262 for one element lst of joints + rigids: lst is a str, so
\* name1 and name2 run over its characters
checkPhysicsDuplicationPrints(lst) ==
    LET repeated(i) == counter(lst, lst[i]) > 1
        idx == SelectSeq([i \in 1..Len(lst) |-> i], repeated)
    IN  [k \in 1..Len(idx) |-> Message("line 262", lst, <<lst[idx[k]]>>)]

checkPhysicsDuplicationInMMD ==
    /\ console' = Concat(SeqMap(checkPhysicsDuplicationPrints,
                                 joints \o rigids))
    /\ called' = Call("checkPhysicsDuplicationInMMD", FALSE)
    /\ UNCHANGED <<bones, objects, translation, frame_items, vertex_morphs,
                   shape_keys, csv_rows>>

-----------------------------------------------------------------------------
(* setMorphPanel *)

Base == <<12505, 12540, 12473>>     \* the Japanese name of the basis key
Basis == <<66, 97, 115, 105, 115>>  \* "Basis"

Item(type, name) == [type |-> type, name |-> name]

Morph(name, name_e) == [name |-> name, name_e |-> name_e]

\* lines 149-165 over the shape keys in order; st holds the frame items,
\* the vertex morphs, processed_list and what was printed
RECURSIVE setMorphPanelLoop(_, _)
setMorphPanelLoop(shapes, st) ==
    IF shapes = <<>> THEN st
    ELSE LET shape == Head(shapes)
         IN  IF shape = Base \/ shape = Basis
             THEN setMorphPanelLoop(Tail(shapes),
                    [st EXCEPT !.printed =
                        Append(@, Message("line 151", shape, <<>>))])
             ELSE IF shape \in Range(st.processed_list)
             THEN setMorphPanelLoop(Tail(shapes),
                    [st EXCEPT !.printed =
                        Append(@, Message("line 155", shape, <<>>))])
             ELSE setMorphPanelLoop(Tail(shapes),
                    [items |-> Append(st.items, Item("MORPH", shape)),
                     morphs |-> Append(st.morphs, Morph(shape, <<>>)),
                     processed_list |-> Append(st.processed_list, shape),
                     printed |-> Append(st.printed,
                                        Message("line 165", shape, <<>>))])

setMorphPanel ==
    LET st == setMorphPanelLoop(Concat(shape_keys),
                [items |-> frame_items,
                 morphs |-> vertex_morphs,
                 processed_list |-> [i \in 1..Len(frame_items) |->
                                        frame_items[i].name],
                 printed |-> <<>>])
    IN  /\ frame_items' = st.items
        /\ vertex_morphs' = st.morphs
        /\ console' = st.printed
        /\ called' = Call("setMorphPanel", FALSE)
        /\ UNCHANGED <<bones, objects, translation, shape_keys, csv_rows>>

-----------------------------------------------------------------------------
(* setEnglishMorphNames *)

\* morph[0] in vertex_morphs
HasMorph(morphs, name) == \E i \in 1..Len(morphs) : morphs[i].name = name

\* vertex_morphs[morph[0]]: the first morph of that name
MorphIndex(morphs, name) ==
    CHOOSE i \in 1..Len(morphs) :
        /\ morphs[i].name = name
        /\ \A k \in 1..(i - 1) : morphs[k].name # name

setEnglishMorphNamesStopAtMissing(rows, st, overwrite) ==
    LET RECURSIVE loop(_, _)
        loop(rs, t) ==
            IF rs = <<>> THEN t
            ELSE LET morph == Head(rs)
                 IN  IF HasMorph(t.morphs, morph[1])
                     THEN LET m == MorphIndex(t.morphs, morph[1])
                          IN  IF ~overwrite /\ t.morphs[m].name_e # <<>>
                              THEN loop(Tail(rs),
                                     [t EXCEPT !.printed = Append(@,
                                        Message("line 185", morph[1], <<>>))])
                              ELSE loop(Tail(rs),
                                     [morphs |-> [t.morphs EXCEPT
                                                  ![m].name_e = morph[2]],
                                      printed |-> Append(t.printed,
                                        Message("line 188", morph[1],
                                                morph[2]))])
                     ELSE [t EXCEPT !.printed = Append(@,
                              Message("line 190", morph[1], <<>>))]
    IN  loop(rows, st)

\* lines 181-190 over the rows in order (morph[0], morph[1] are the row's
\* two columns, here morph[1] and morph[2]); st holds the vertex morphs and
\* what was printed
RECURSIVE setEnglishMorphNamesLoop(_, _, _)
setEnglishMorphNamesLoop(rows, st, overwrite) ==
    IF rows = <<>> THEN st
    ELSE LET morph == Head(rows)
         IN  IF HasMorph(st.morphs, morph[1])
             THEN LET m == MorphIndex(st.morphs, morph[1])
                  IN  IF ~overwrite /\ st.morphs[m].name_e # <<>>
                      THEN setEnglishMorphNamesLoop(Tail(rows),
                             [st EXCEPT !.printed = Append(@,
                                Message("line 185", morph[1], <<>>))],
                             overwrite)
                      ELSE setEnglishMorphNamesLoop(Tail(rows),
                             [morphs |-> [st.morphs EXCEPT
                                          ![m].name_e = morph[2]],
                              printed |-> Append(st.printed,
                                Message("line 188", morph[1], morph[2]))],
                             overwrite)
             ELSE setEnglishMorphNamesLoop(Tail(rows),
                    [st EXCEPT !.printed = Append(@,
                        Message("line 190", morph[1], <<>>))],
                    overwrite)

setEnglishMorphNames(overwrite) ==
    LET st == setEnglishMorphNamesLoop(csv_rows,
                [morphs |-> vertex_morphs, printed |-> <<>>], overwrite)
    IN  /\ vertex_morphs' = st.morphs
        /\ console' = st.printed
        /\ called' = Call("setEnglishMorphNames", overwrite)
        /\ UNCHANGED <<bones, objects, translation, frame_items, shape_keys,
                       csv_rows>>

-----------------------------------------------------------------------------
(* The bone scene: one bone takes every name up to MaxNameLen, every       *)
(* stored name pair and both shadow flags; the bones after it are drawn    *)
(* from a fixed sample.  Bone names are non-empty and unique in an         *)
(* armature.                                                               *)

BoneAlphabet == {33109, 46, 76, 82}    \* an arm character, ".", "L", "R"

BoneNames == SeqsUpTo(BoneAlphabet, 1, MaxNameLen) \cup excluded

ManualNameJ == <<25163, 21205>>

StoredNamesJ == {<<>>, ManualNameJ}

\* "", "A_1", "A+", a non-ASCII name
StoredNamesE == {<<>>, <<65, 95, 49>>, <<65, 43>>, <<33109>>}

Bone(name, shadow, name_j, name_e) ==
    [name |-> name, is_mmd_shadow_bone |-> shadow,
     name_j |-> name_j, name_e |-> name_e]

AnyBone ==
    {Bone(n, s, j, e) : n \in BoneNames, s \in BOOLEAN,
                        j \in StoredNamesJ, e \in StoredNamesE}

SampleBones ==
    { Bone(<<39318>>, FALSE, <<>>, <<>>),
      Bone(<<33136, 12461, 12515, 12531, 12475, 12523, 46, 76>>,
           FALSE, ManualNameJ, <<65>>) }

UniqueNames(bs) ==
    \A i, k \in 1..Len(bs) : bs[i].name = bs[k].name => i = k

BoneScenes ==
    {bs \in {<<b>> \o rest : b \in AnyBone,
                             rest \in SeqsUpTo(SampleBones, 0, MaxBones - 1)} :
        UniqueNames(bs)}

NoCall == Call("", FALSE)

InitBones ==
    /\ bones \in BoneScenes
    /\ objects = <<>>
    /\ translation = <<>>
    /\ frame_items = <<>>
    /\ vertex_morphs = <<>>
    /\ shape_keys = <<>>
    /\ csv_rows = <<>>
    /\ console = <<>>
    /\ called = NoCall

NextBones == setJapaneseBoneNames \/ checkInvalidBoneName

SpecBones == InitBones /\ [][NextBones]_vars

-----------------------------------------------------------------------------
(* Properties of the bone names, under SpecBones *)

\* the six exempt identifiers, as the specification lists them
ExclusionSet ==
    { s \o side : s \in { <<19978, 21322, 36523, 50, 35036, 21161>>,
                          <<33136, 12461, 12515, 12531, 12475, 12523>>,
                          <<19979, 21322, 36523, 35036, 21161>> },
                 side \in {<<46, 76>>, <<46, 82>>} }

\* an ASCII letter or digit, as a code point
IsAsciiAlnum(c) == c \in (48..57) \cup (65..90) \cup (97..122)

\* EnglishNameValidity: without "_" and "+", a non-empty run of ASCII
\* letters and digits
EnglishNameValidity(s) ==
    LET kept(c) == c \notin {95, 43}
        t == SelectSeq(s, kept)
    IN  t # <<>> /\ \A i \in 1..Len(t) : IsAsciiAlnum(t[i])

Printed(msgs, name) ==
    \E k \in 1..Len(console) :
        console[k].msg \in msgs /\ console[k].name = name

Processed(bone) ==
    ~bone.is_mmd_shadow_bone /\ bone.name \notin ExclusionSet

\* C1: after setJapaneseBoneNames every non-shadow, non-excluded bone holds
\* the left prefix + stem when its name ends in ".L", the right prefix +
\* stem when it ends in ".R" (only that trailing suffix stripped), and its
\* name unchanged otherwise.
C1_TrailingSuffixRule ==
    called.op = "setJapaneseBoneNames" =>
        \A i \in 1..Len(bones) :
            Processed(bones[i]) =>
                bones[i].name_j = JapaneseNameEndsWith(bones[i].name)

\* C2: setJapaneseBoneNames leaves every bone of the exclusion set as it
\* was, whatever its suffix, and still names the other non-shadow bones.
C2_ExcludedBonesSkipped ==
    [][called'.op = "setJapaneseBoneNames" =>
          /\ Len(bones') = Len(bones)
          /\ \A i \in 1..Len(bones) :
                /\ bones[i].name \in ExclusionSet => bones'[i] = bones[i]
                /\ Processed(bones[i]) =>
                      /\ bones'[i].name_j = JapaneseName(bones[i].name)
                      /\ Printed({"line 51"}, bones[i].name)']_vars

C2_Witness ==
    /\ called.op = "setJapaneseBoneNames"
    /\ Len(bones) = 2
    /\ bones[1].name \in ExclusionSet /\ EndsWith(bones[1].name, R)
    /\ ~bones[1].is_mmd_shadow_bone
    /\ bones[1].name_j = ManualNameJ
    /\ Processed(bones[2])
    /\ bones[2].name_j = bones[2].name

\* C6: a checkInvalidBoneName that follows setJapaneseBoneNames (run once
\* or many times) prints no Japanese-name message, neither "empty" nor
\* "differs", for any non-shadow, non-excluded bone.
C6_DeriveThenValidate ==
    [][(called.op = "setJapaneseBoneNames"
            /\ called'.op = "checkInvalidBoneName") =>
          \A i \in 1..Len(bones) :
              Processed(bones[i]) =>
                  ~Printed({"line 107", "line 110"}, bones[i].name)']_vars

C6_Witness ==
    /\ called.op = "checkInvalidBoneName"
    /\ \E i \in 1..Len(bones) :
          /\ Processed(bones[i])
          /\ Contains(bones[i].name, L) /\ Contains(bones[i].name, R)
          /\ bones[i].name_j = JapaneseName(bones[i].name)
          /\ ~Printed({"line 107", "line 110"}, bones[i].name)

\* C7: for every non-shadow bone checkInvalidBoneName prints a Japanese-name
\* message exactly when the stored name_j differs from the name
\* setJapaneseBoneNames derives for the bone name (exclusions ignored), and
\* an English-name message exactly when name_e is empty or fails
\* EnglishNameValidity; it changes no bone.
C7_CheckReportsExactly ==
    [][called'.op = "checkInvalidBoneName" =>
          /\ bones' = bones
          /\ \A i \in 1..Len(bones) :
                ~bones[i].is_mmd_shadow_bone =>
                    /\ Printed({"line 107", "line 110"}, bones[i].name)'
                          <=> bones[i].name_j # JapaneseName(bones[i].name)
                    /\ Printed({"line 102", "line 104"}, bones[i].name)'
                          <=> (bones[i].name_e = <<>>
                                  \/ ~EnglishNameValidity(bones[i].name_e))]_vars

C7_Witness ==
    /\ called.op = "checkInvalidBoneName"
    /\ \E i \in 1..Len(bones) :
          /\ bones[i].name \in ExclusionSet
          /\ ~bones[i].is_mmd_shadow_bone
          /\ bones[i].name_j = ManualNameJ
          /\ Printed({"line 110"}, bones[i].name)
          /\ bones[i].name_e = <<65, 43>>
          /\ ~Printed({"line 102", "line 104"}, bones[i].name)

-----------------------------------------------------------------------------
(* The scene of the English-name setters: one bone, one rigid body and one *)
(* joint, each with or without an English name already stored, and a       *)
(* translation table over two Japanese terms: one term takes every string  *)
(* up to MaxLookupLen as its result, the other one of a fixed sample.      *)

LeftArm == <<24038, 33109>>
Neck == <<39318>>

JpTerms == {LeftArm, Neck}

LookupAlphabet == {65, 95, 43, 33109}    \* "A", "_", "+", a non-ASCII one

Lookups == SeqsUpTo(LookupAlphabet, 0, MaxLookupLen)

SampleLookups == {<<>>, <<65, 95>>, <<65, 43>>}    \* "", "A_", "A+"

Translations ==
    {t \in [JpTerms -> Lookups \cup SampleLookups] :
        \E term \in JpTerms : t[term] \in SampleLookups}

ExistingNamesE == {<<>>, <<66>>}    \* none yet, or "B"

Physics(name_j, name_e) == [name_j |-> name_j, name_e |-> name_e]

Object(mmd_rigid, mmd_joint) ==
    [mmd_rigid |-> mmd_rigid, mmd_joint |-> mmd_joint]

NoPhysics == Physics(<<>>, <<>>)

EnglishBones ==
    {<<Bone(<<33109, 46, 76>>, s, LeftArm, e)>> :
        s \in BOOLEAN, e \in ExistingNamesE}

\* an object that is neither a rigid body nor a joint, or a rigid body
RigidObjects ==
    {Object(NoPhysics, NoPhysics)}
        \cup {Object(Physics(Neck, e), NoPhysics) : e \in ExistingNamesE}

JointObjects ==
    {Object(NoPhysics, Physics(Neck, e)) : e \in ExistingNamesE}

InitEnglish ==
    /\ bones \in EnglishBones
    /\ objects \in {<<r, j>> : r \in RigidObjects, j \in JointObjects}
    /\ translation \in Translations
    /\ frame_items = <<>>
    /\ vertex_morphs = <<>>
    /\ shape_keys = <<>>
    /\ csv_rows = <<>>
    /\ console = <<>>
    /\ called = NoCall

NextEnglish ==
    \E overwrite \in BOOLEAN :
        \/ setEnglishBoneNames(overwrite)
        \/ setEnglishRigidNames(overwrite)
        \/ setEnglishJointNames(overwrite)

SpecEnglish == InitEnglish /\ [][NextEnglish]_vars

-----------------------------------------------------------------------------
(* Properties of the English-name setters, under SpecEnglish *)

Setters ==
    {"setEnglishBoneNames", "setEnglishRigidNames", "setEnglishJointNames"}

\* the stored English names a setter can write, with the Japanese name
\* each is looked up by: <<name_j, name_e before, name_e after>>
EnglishNameSlots(bs, os, bs2, os2) ==
    {<<bs[i].name_j, bs[i].name_e, bs2[i].name_e>> :
        i \in {k \in 1..Len(bs) : ~bs[k].is_mmd_shadow_bone}}
    \cup {<<os[i].mmd_rigid.name_j, os[i].mmd_rigid.name_e,
            os2[i].mmd_rigid.name_e>> :
        i \in {k \in 1..Len(os) : os[k].mmd_rigid.name_j # <<>>}}
    \cup {<<os[i].mmd_joint.name_j, os[i].mmd_joint.name_e,
            os2[i].mmd_joint.name_e>> :
        i \in {k \in 1..Len(os) : os[k].mmd_joint.name_j # <<>>}}

\* the slots the setter just called goes over
SlotsOf(op, bs, os, bs2, os2) ==
    CASE op = "setEnglishBoneNames" ->
            EnglishNameSlots(bs, <<>>, bs2, <<>>)
      [] op = "setEnglishRigidNames" ->
            EnglishNameSlots(<<>>, [i \in 1..Len(os) |->
                Object(os[i].mmd_rigid, NoPhysics)], <<>>, os2)
      [] op = "setEnglishJointNames" ->
            EnglishNameSlots(<<>>, [i \in 1..Len(os) |->
                Object(NoPhysics, os[i].mmd_joint)], <<>>, os2)
      [] OTHER -> {}

AllowedEnglishChar(c) == IsAsciiAlnum(c) \/ c \in {95, 43}

HasNonAscii(s) == \E i \in 1..Len(s) : s[i] > 127

\* the messages that report a registered English name
Registered == {"line 75", "line 209", "line 233"}

\* C3: whatever a translation-based setter writes to name_e, with either
\* overwrite, is non-empty and made of [A-Za-z0-9_+] only; an empty lookup
\* result or one with a non-ASCII character leaves name_e as it was.
C3_NeverAssignsInvalidName ==
    [][called'.op \in Setters =>
          /\ \A k \in 1..Len(console') :
                console'[k].msg \in Registered =>
                    /\ console'[k].arg # <<>>
                    /\ \A i \in 1..Len(console'[k].arg) :
                          AllowedEnglishChar(console'[k].arg[i])
          /\ \A slot \in EnglishNameSlots(bones, objects, bones', objects') :
                /\ slot[3] # slot[2] =>
                      /\ slot[3] # <<>>
                      /\ \A i \in 1..Len(slot[3]) :
                            AllowedEnglishChar(slot[3][i])
                /\ (translation[slot[1]] = <<>>
                        \/ HasNonAscii(translation[slot[1]])) =>
                      slot[3] = slot[2]]_vars

C3_Witness ==
    /\ called.op = "setEnglishRigidNames"
    /\ translation[Neck] = <<65, 95>>
    /\ translation[LeftArm] = <<65, 33109>>
    /\ objects[1].mmd_rigid.name_e = <<65, 95>>
    /\ bones[1].name_e = <<>>
    /\ ~bones[1].is_mmd_shadow_bone

\* what the setters let through: without "_", a non-empty run of ASCII
\* letters and digits
SetterAccepts(s) ==
    LET kept(c) == c # 95
        t == SelectSeq(s, kept)
    IN  t # <<>> /\ \A i \in 1..Len(t) : IsAsciiAlnum(t[i])

\* C4 as stated: a non-empty English name survives a call with overwrite
\* false whatever the lookup gives, and with overwrite true the stored
\* English name after the call is the lookup value.
C4_OverwriteGating ==
    [][called'.op \in Setters =>
          \A slot \in SlotsOf(called'.op, bones, objects, bones', objects') :
              /\ (slot[2] # <<>> /\ ~called'.overwrite) => slot[3] = slot[2]
              /\ called'.overwrite => slot[3] = translation[slot[1]]]_vars

\* C4 amended: a non-empty English name survives a call with overwrite
\* false whatever the lookup gives; with overwrite true the stored English
\* name after the call is the lookup value when the lookup value passes the
\* setter's filter, and the name it had before when it does not.
C4_OverwriteGatingValidLookup ==
    [][called'.op \in Setters =>
          \A slot \in SlotsOf(called'.op, bones, objects, bones', objects') :
              /\ (slot[2] # <<>> /\ ~called'.overwrite) => slot[3] = slot[2]
              /\ (called'.overwrite /\ SetterAccepts(translation[slot[1]]))
                    => slot[3] = translation[slot[1]]
              /\ (called'.overwrite /\ ~SetterAccepts(translation[slot[1]]))
                    => slot[3] = slot[2]]_vars

C4_Witness ==
    /\ called.op = "setEnglishJointNames"
    /\ called.overwrite
    /\ translation[Neck] = <<65, 95>>
    /\ objects[2].mmd_joint.name_e = <<65, 95>>
    /\ \E k \in 1..Len(console) : console[k].msg = "line 233"

\* C9: with overwrite true a setter registers a lookup result exactly when
\* checkInvalidBoneName would print no English-name message for that same
\* string.
C9_SameValidityPredicate ==
    (called.op \in Setters /\ called.overwrite) =>
        \A slot \in SlotsOf(called.op, bones, objects, bones, objects) :
            (\E k \in 1..Len(console) :
                /\ console[k].msg \in Registered
                /\ console[k].arg = translation[slot[1]])
            <=> EnglishNameCheck(translation[slot[1]]) = <<>>

-----------------------------------------------------------------------------
(* The physics scene: up to MaxObjects objects, each a rigid body, a joint *)
(* or neither, named by strings over "a", "b" up to MaxPhysicsNameLen.     *)

PhysicsNames == SeqsUpTo({97, 98}, 1, MaxPhysicsNameLen)

PhysicsObjects ==
    {Object(NoPhysics, NoPhysics)}
        \cup {Object(Physics(n, <<>>), NoPhysics) : n \in PhysicsNames}
        \cup {Object(NoPhysics, Physics(n, <<>>)) : n \in PhysicsNames}

InitPhysics ==
    /\ bones = <<>>
    /\ objects \in SeqsUpTo(PhysicsObjects, 0, MaxObjects)
    /\ translation = <<>>
    /\ frame_items = <<>>
    /\ vertex_morphs = <<>>
    /\ shape_keys = <<>>
    /\ csv_rows = <<>>
    /\ console = <<>>
    /\ called = NoCall

NextPhysics == checkPhysicsDuplicationInMMD

SpecPhysics == InitPhysics /\ [][NextPhysics]_vars

\* how often a name occurs in the flat list of joint and rigid-body names
Occurrences(name) ==
    Cardinality({i \in 1..Len(joints \o rigids) :
                    (joints \o rigids)[i] = name})

\* C5: checkPhysicsDuplicationInMMD reports exactly the names that occur
\* more than once in the flat list of non-empty rigid-body and joint names.
C5_ReportsExactlyDuplicates ==
    called.op = "checkPhysicsDuplicationInMMD" =>
        \A name \in Range(joints \o rigids) :
            Occurrences(name) > 1
                <=> \E k \in 1..Len(console) :
                        console[k].name = name \/ console[k].arg = name

-----------------------------------------------------------------------------
(* The morph panel scene: a display frame and a vertex-morph list that     *)
(* each hold no name twice, and up to MaxKeys shape-key collections of up  *)
(* to MaxKeyBlocks key blocks (no name twice within one collection).       *)

MorphA == <<12354>>
MorphI == <<12356>>
MorphU == <<12358>>

NoNameTwice(names) ==
    \A i, k \in 1..Len(names) : names[i] = names[k] => i = k

NamesOf(s) == [i \in 1..Len(s) |-> s[i].name]

PanelNames == {ns \in SeqsUpTo({MorphA, MorphI}, 0, MaxMorphs) : NoNameTwice(ns)}

KeyBlocks ==
    {ns \in SeqsUpTo({Base, Basis, MorphA, MorphI}, 0, MaxKeyBlocks) :
        NoNameTwice(ns)}

InitPanel ==
    /\ bones = <<>>
    /\ objects = <<>>
    /\ translation = <<>>
    /\ frame_items \in {[i \in 1..Len(ns) |-> Item("MORPH", ns[i])] :
                            ns \in PanelNames}
    /\ vertex_morphs \in {[i \in 1..Len(ns) |-> Morph(ns[i], <<>>)] :
                            ns \in PanelNames}
    /\ shape_keys \in SeqsUpTo(KeyBlocks, 0, MaxKeys)
    /\ csv_rows = <<>>
    /\ console = <<>>
    /\ called = NoCall

NextPanel == setMorphPanel

SpecPanel == InitPanel /\ [][NextPanel]_vars

\* C10: from a display frame and a vertex-morph list that each hold no
\* name twice, any number of setMorphPanel calls leaves no name twice in
\* the frame items and no name twice in vertex_morphs.
C10_NoDoubleRegistration ==
    NoNameTwice(NamesOf(frame_items)) /\ NoNameTwice(NamesOf(vertex_morphs))

-----------------------------------------------------------------------------
(* The morph dictionary scene: up to MaxMorphs vertex morphs, with or      *)
(* without an English name, and a dictionary file of up to MaxRows         *)
(* two-column rows, some naming a morph the model may not have.            *)

Rows == {<<jp, en>> : jp \in {MorphA, MorphI, MorphU}, en \in {<<97>>, <<98>>}}

InitDictionary ==
    /\ bones = <<>>
    /\ objects = <<>>
    /\ translation = <<>>
    /\ frame_items = <<>>
    /\ vertex_morphs \in SeqsUpTo({Morph(n, e) : n \in {MorphA, MorphI},
                                                 e \in ExistingNamesE},
                                   0, MaxMorphs)
    /\ shape_keys = <<>>
    /\ csv_rows \in SeqsUpTo(Rows, 0, MaxRows)
    /\ console = <<>>
    /\ called = NoCall

NextDictionary == \E overwrite \in BOOLEAN : setEnglishMorphNames(overwrite)

SpecDictionary == InitDictionary /\ [][NextDictionary]_vars

\* the rows whose Japanese morph name the model has
ExistingRows(rows, morphs) ==
    LET exists(row) == \E i \in 1..Len(morphs) : morphs[i].name = row[1]
    IN  SelectSeq(rows, exists)

\* the morphs after the rows, every one of which names a morph of the
\* model, have been applied in order
RECURSIVE ApplyRows(_, _, _)
ApplyRows(rows, morphs, overwrite) ==
    IF rows = <<>> THEN morphs
    ELSE LET first == CHOOSE i \in 1..Len(morphs) :
                        /\ morphs[i].name = Head(rows)[1]
                        /\ \A k \in 1..Len(morphs) :
                              morphs[k].name = Head(rows)[1] => i <= k
             write == overwrite \/ morphs[first].name_e = <<>>
         IN  ApplyRows(Tail(rows),
                       IF write
                       THEN [morphs EXCEPT ![first].name_e = Head(rows)[2]]
                       ELSE morphs,
                       overwrite)

\* C8: setEnglishMorphNames reports every row whose Japanese morph name
\* the model lacks, changes no morph for it and goes on: the morphs after
\* the call are those that the rows whose morph exists give, in order.
C8_NoAbortOnMissingMorph ==
    [][called'.op = "setEnglishMorphNames" =>
          /\ vertex_morphs' =
                ApplyRows(ExistingRows(csv_rows, vertex_morphs),
                          vertex_morphs, called'.overwrite)
          /\ \A r \in 1..Len(csv_rows) :
                ~(\E i \in 1..Len(vertex_morphs) :
                      vertex_morphs[i].name = csv_rows[r][1])
                => \E k \in 1..Len(console') :
                      /\ console'[k].msg = "line 190"
                      /\ console'[k].name = csv_rows[r][1]
          /\ Len(console') = Len(csv_rows)]_vars

C8_Witness ==
    /\ called.op = "setEnglishMorphNames"
    /\ Len(csv_rows) = 2
    /\ csv_rows[1][1] = MorphU
    /\ csv_rows[2] = <<MorphA, <<97>>>>
    /\ Len(console) = 2
    /\ console[1].msg = "line 190"
    /\ console[2].msg = "line 188"
    /\ \E i \in 1..Len(vertex_morphs) :
          vertex_morphs[i] = Morph(MorphA, <<97>>)

-----------------------------------------------------------------------------
(* toggleSubsurf *)

\* a modifier is referred to by <<index of its object, index in .modifiers>>
Modifier(type, show_viewport) ==
    [type |-> type, show_viewport |-> show_viewport]

\* target=None, or target=[...]
None == [given |-> FALSE, mods |-> <<>>]
Target(mods) == [given |-> TRUE, mods |-> mods]

\* mod_type=('SUBSURF'): the parentheses make no tuple, it is the str
SUBSURF == <<83, 85, 66, 83, 85, 82, 70>>
MIRROR == <<77, 73, 82, 82, 79, 82>>

\* lines 686-687: every modifier of every object, in order
AllModifiers(objs) ==
    Concat([o \in 1..Len(objs) |->
              [m \in 1..Len(objs[o].modifiers) |-> <<o, m>>]])

toggleLoopAppendAll(mods, objs, toggled, mode) ==
    LET RECURSIVE loop(_, _, _)
        loop(ms, os, ts) ==
            IF ms = <<>> THEN [objects |-> os, toggled |-> ts]
            ELSE LET mod == Head(ms)
                 IN  loop(Tail(ms),
                          [os EXCEPT ![mod[1]].modifiers[mod[2]].show_viewport
                                        = mode],
                          Append(ts, mod))
    IN  loop(mods, objs, toggled)

\* lines 689-691 and 694-696, over the modifiers in order: the objects
\* afterwards and the list toggled
RECURSIVE toggleLoop(_, _, _, _)
toggleLoop(mods, objs, toggled, mode) ==
    IF mods = <<>> THEN [objects |-> objs, toggled |-> toggled]
    ELSE LET mod == Head(mods)
         IN  IF objs[mod[1]].modifiers[mod[2]].show_viewport # mode
             THEN toggleLoop(Tail(mods),
                    [objs EXCEPT ![mod[1]].modifiers[mod[2]].show_viewport
                                    = mode],
                    Append(toggled, mod), mode)
             ELSE toggleLoop(Tail(mods), objs, toggled, mode)

\* lines 685-696: the modifiers the call goes over
Targeted(objs, target, mod_type) ==
    IF ~target.given
    THEN LET matches(mod) ==
                 Contains(mod_type, objs[mod[1]].modifiers[mod[2]].type)
         IN  SelectSeq(AllModifiers(objs), matches)
    ELSE target.mods

\* str(mode)
StrBool(mode) ==
    IF mode THEN <<84, 114, 117, 101>> ELSE <<70, 97, 108, 115, 101>>

\* the call is recorded with its arguments, the list it returns and the
\* objects as they were when it was made
toggleSubsurf(mode, target, mod_type) ==
    LET done == toggleLoop(Targeted(objects, target, mod_type), objects,
                           <<>>, mode)
    IN  /\ objects' = done.objects
        /\ console' = <<Message("line 698", mod_type, StrBool(mode))>>
        /\ called' = [op |-> "toggleSubsurf", overwrite |-> FALSE,
                      mode |-> mode, target |-> target,
                      toggled |-> done.toggled, before |-> objects]
        /\ UNCHANGED <<bones, translation, frame_items, vertex_morphs,
                       shape_keys, csv_rows>>

-----------------------------------------------------------------------------
(* The modifier scene: up to MaxMeshes objects holding up to MaxModifiers  *)
(* modifiers between them, each a SUBSURF or a MIRROR, shown or not.  A    *)
(* call names no target, a list of up to MaxTargets modifiers of the       *)
(* scene, or the list the call before it returned.                         *)

Modifiers == {Modifier(t, v) : t \in {SUBSURF, MIRROR}, v \in BOOLEAN}

Mesh(modifiers) ==
    [mmd_rigid |-> NoPhysics, mmd_joint |-> NoPhysics,
     modifiers |-> modifiers]

ModifierScenes ==
    {os \in SeqsUpTo({Mesh(ms) : ms \in SeqsUpTo(Modifiers, 0, MaxModifiers)},
                     0, MaxMeshes) :
        Len(AllModifiers(os)) <= MaxModifiers}

Targets ==
    {None}
        \cup {Target(ms) : ms \in SeqsUpTo(Range(AllModifiers(objects)),
                                           0, MaxTargets)}
        \cup (IF called.op = "toggleSubsurf"
              THEN {Target(called.toggled)} ELSE {})

InitSubsurf ==
    /\ bones = <<>>
    /\ objects \in ModifierScenes
    /\ translation = <<>>
    /\ frame_items = <<>>
    /\ vertex_morphs = <<>>
    /\ shape_keys = <<>>
    /\ csv_rows = <<>>
    /\ console = <<>>
    /\ called = NoCall

NextSubsurf ==
    \E mode \in BOOLEAN, target \in Targets :
        toggleSubsurf(mode, target, SUBSURF)

SpecSubsurf == InitSubsurf /\ [][NextSubsurf]_vars

ShowViewport(objs, mod) == objs[mod[1]].modifiers[mod[2]].show_viewport

\* the modifiers a call with this target is aimed at: the SUBSURF ones
\* when no target is given, the listed ones otherwise
Aimed(objs, target) ==
    IF target.given THEN Range(target.mods)
    ELSE {mod \in Range(AllModifiers(objs)) :
             objs[mod[1]].modifiers[mod[2]].type = SUBSURF}

\* C11: toggleSubsurf(mode, target) returns exactly the modifiers whose
\* show_viewport it changed, those aimed at that were not mode before;
\* every other modifier is as it was, and every modifier aimed at has
\* show_viewport = mode afterwards.  So a following
\* toggleSubsurf(not mode, target = the list returned) puts every
\* modifier's show_viewport back to what it was before the first call.
C11_ToggleReturnsChangedAndRestores ==
    [][called'.op = "toggleSubsurf" =>
          LET aimed == Aimed(objects, called'.target)
              changed == {mod \in aimed :
                             ShowViewport(objects, mod) # called'.mode}
          IN  /\ Range(called'.toggled) = changed
              /\ Len(called'.toggled) = Cardinality(changed)
              /\ AllModifiers(objects') = AllModifiers(objects)
              /\ \A mod \in Range(AllModifiers(objects)) :
                    /\ objects'[mod[1]].modifiers[mod[2]].type
                          = objects[mod[1]].modifiers[mod[2]].type
                    /\ ShowViewport(objects', mod) # ShowViewport(objects, mod)
                          <=> mod \in changed
                    /\ mod \in aimed =>
                          ShowViewport(objects', mod) = called'.mode
              /\ (/\ called.op = "toggleSubsurf"
                  /\ called'.mode = ~called.mode
                  /\ called'.target = Target(called.toggled))
                    => objects' = called.before]_vars

C11_Witness ==
    /\ called.op = "toggleSubsurf"
    /\ ~called.mode
    /\ called.target.given
    /\ called.toggled = called.target.mods
    /\ Len(called.toggled) > MaxTargets
    /\ called.before # objects
    /\ \A mod \in Range(called.toggled) : ~ShowViewport(objects, mod)

====
